---- MODULE Spec2Model ----
(***************************************************************************)
(* Booking ledger of the hotel RAG API (src/rag/api.py): the two JSON      *)
(* partitions pending_bookings.json / confirmed_bookings.json, the         *)
(* identifier allocator, and the /booking-request and /confirm-booking     *)
(* handlers, one action per file operation of a handler.                   *)
(*                                                                         *)
(* Three specifications:                                                   *)
(*   Spec      one server process (main.py: uvicorn.run without workers);  *)
(*             the handlers are coroutines without an await, so a call     *)
(*             runs to its response before the next one starts.            *)
(*   ConcSpec  two server processes over the same storage directory; the   *)
(*             file operations of their handlers interleave freely.        *)
(*   CrashSpec one server process that may be killed between, or in the    *)
(*             middle of, the file operations of a handler.                *)
(*                                                                         *)
(* Left out of the records: the static hotel_name / hotel_address /        *)
(* contact_* fields (constants of hotel_data.json), the wall-clock         *)
(* timestamps, and the display-only fields of RoomOption (size_sqm,        *)
(* available_count, features, notes).                                      *)
(***************************************************************************)
EXTENDS Integers, Sequences, FiniteSets, TLC

VARIABLES
    pendingFile,        \* storage/pending_bookings.json
    confirmedFile,      \* storage/confirmed_bookings.json
    pc,                 \* per process: position in the handler it runs
    req,                \* per process: the request being served
    all_ids,            \* per process: _get_next_booking_id's all_ids
    booking_id,         \* per process: request_booking's booking_id
    pending_bookings,   \* per process: the handler's local pending_bookings
    confirmed_bookings, \* per process: confirm_booking's local confirmed_bookings
    booking,            \* per process: pending_booking / confirmed_booking built
    resp,               \* per process: the handler's response
    log,                \* history: the calls served, in order of return
    calls,              \* history: number of calls started
    index_storage,      \* the index files under storage/
    _query_engine       \* rag.query_engine._query_engine

vars == <<pendingFile, confirmedFile, pc, req, all_ids, booking_id,
          pending_bookings, confirmed_bookings, booking, resp, log, calls,
          index_storage, _query_engine>>

(***************************************************************************)
(* Bounds of the model.                                                    *)
(***************************************************************************)
MaxCalls == 4
MaxConfirmId == 2
MaxGuests == 5
MaxDuration == 3
MaxOptions == 3

Procs == {"p1", "p2"}

----------------------------------------------------------------------------
(***************************************************************************)
(* Helpers on sequences and optional values (None is <<>>, v is <<v>>).    *)
(***************************************************************************)
None == <<>>
Some(v) == <<v>>

Range(s) == {s[i] : i \in 1..Len(s)}

Max(a, b) == IF a >= b THEN a ELSE b

----------------------------------------------------------------------------
(***************************************************************************)
(* rag/config.py: the pricing catalog.                                     *)
(***************************************************************************)
HotelRoomNames == <<"Einzelzimmer", "DORMERO Zimmer", "Komfort Zimmer", "Junior Suite">>

ROOM_PRICING ==
    [n \in Range(HotelRoomNames) |->
        CASE n = "Einzelzimmer"   -> [base_price |-> 89,  price_per_extra_guest |-> 0,  max_guests |-> 1]
          [] n = "DORMERO Zimmer" -> [base_price |-> 119, price_per_extra_guest |-> 25, max_guests |-> 2]
          [] n = "Komfort Zimmer" -> [base_price |-> 149, price_per_extra_guest |-> 25, max_guests |-> 2]
          [] n = "Junior Suite"   -> [base_price |-> 199, price_per_extra_guest |-> 35, max_guests |-> 4]]

MeetingRoomNames == <<"Carolina Cik", "Carina Coerbchen">>

MEETING_ROOM_PRICING ==
    [n \in Range(MeetingRoomNames) |->
        CASE n = "Carolina Cik"     -> [half_day |-> 450, full_day |-> 750, price_per_person_catering |-> 35]
          [] n = "Carina Coerbchen" -> [half_day |-> 280, full_day |-> 450, price_per_person_catering |-> 35]]

(***************************************************************************)
(* hotel_data.json is not part of the sources.  Its room_details are taken *)
(* to list the four priced hotel rooms in catalog order, and its           *)
(* meeting_rooms the two priced meeting rooms with these capacities (the   *)
(* larger one holds the 30 guests of the documented scenario).             *)
(***************************************************************************)
hotel_data ==
    [room_details  |-> HotelRoomNames,
     meeting_rooms |-> MeetingRoomNames,
     max_capacity  |-> [n \in Range(MeetingRoomNames) |->
                           IF n = "Carolina Cik" THEN 100 ELSE 20]]

----------------------------------------------------------------------------
(***************************************************************************)
(* The availability and pricing resolver.                                  *)
(***************************************************************************)

\* seeded fault: an option is placed before the options of equal total
RECURSIVE InsertBeforeEqual(_, _)
InsertBeforeEqual(sorted, o) ==
    IF sorted = <<>> THEN <<o>>
    ELSE IF Head(sorted).total_price < o.total_price
         THEN <<Head(sorted)>> \o InsertBeforeEqual(Tail(sorted), o)
         ELSE <<o>> \o sorted

\* list.sort(key=total_price): stable, ascending.
RECURSIVE InsertByPrice(_, _)
InsertByPrice(sorted, o) ==
    IF sorted = <<>> THEN <<o>>
    ELSE IF Head(sorted).total_price <= o.total_price
         THEN <<Head(sorted)>> \o InsertByPrice(Tail(sorted), o)
         ELSE <<o>> \o sorted

RECURSIVE SortByPrice(_)
SortByPrice(options) ==
    IF options = <<>> THEN <<>>
    ELSE InsertByPrice(SortByPrice(SubSeq(options, 1, Len(options) - 1)),
                       options[Len(options)])

\* seeded fault: the surcharge is charged for every guest, the first included
HotelRoomOptionPerHead(room_name, guests, nights) ==
    LET pricing         == ROOM_PRICING[room_name]
        max_guests      == pricing.max_guests
        base_price      == pricing.base_price
        extra_guests    == guests
        price_per_night == base_price + (extra_guests * pricing.price_per_extra_guest)
        total_price     == price_per_night * nights
    IN  [room_name       |-> room_name,
         room_category   |-> "Hotel Room",
         max_capacity    |-> max_guests,
         price_per_night |-> Some(price_per_night),
         price_per_day   |-> None,
         total_price     |-> total_price,
         nights          |-> Some(nights),
         days            |-> None,
         catering_note   |-> None]

\* seeded fault: from the third night on, two nights are free
HotelRoomOptionLongStay(room_name, guests, nights) ==
    LET pricing         == ROOM_PRICING[room_name]
        max_guests      == pricing.max_guests
        base_price      == pricing.base_price
        extra_guests    == IF max_guests > 1 THEN Max(0, guests - 1) ELSE 0
        price_per_night == base_price + (extra_guests * pricing.price_per_extra_guest)
        total_price     == IF nights >= 3 THEN price_per_night * (nights - 2)
                           ELSE price_per_night * nights
    IN  [room_name       |-> room_name,
         room_category   |-> "Hotel Room",
         max_capacity    |-> max_guests,
         price_per_night |-> Some(price_per_night),
         price_per_day   |-> None,
         total_price     |-> total_price,
         nights          |-> Some(nights),
         days            |-> None,
         catering_note   |-> None]

HotelRoomOption(room_name, guests, nights) ==
    LET pricing         == ROOM_PRICING[room_name]
        max_guests      == pricing.max_guests
        base_price      == pricing.base_price
        extra_guests    == IF max_guests > 1 THEN Max(0, guests - 1) ELSE 0
        price_per_night == base_price + (extra_guests * pricing.price_per_extra_guest)
        total_price     == price_per_night * nights
    IN  [room_name       |-> room_name,
         room_category   |-> "Hotel Room",
         max_capacity    |-> max_guests,
         price_per_night |-> Some(price_per_night),
         price_per_day   |-> None,
         total_price     |-> total_price,
         nights          |-> Some(nights),
         days            |-> None,
         catering_note   |-> None]

RECURSIVE HotelOptionsFrom(_, _, _)
HotelOptionsFrom(names, guests, nights) ==
    IF names = <<>> THEN <<>>
    ELSE LET room_name == Head(names)
             rest      == HotelOptionsFrom(Tail(names), guests, nights)
         IN  IF room_name \notin DOMAIN ROOM_PRICING THEN rest
             ELSE IF ROOM_PRICING[room_name].max_guests < guests THEN rest
             ELSE <<HotelRoomOption(room_name, guests, nights)>> \o rest

_get_hotel_room_options(guests, nights) ==
    SortByPrice(HotelOptionsFrom(hotel_data.room_details, guests, nights))

\* seeded fault: the half-day rate is charged
MeetingRoomOptionHalfDay(room_name, guests, days, include_catering) ==
    LET pricing       == MEETING_ROOM_PRICING[room_name]
        price_per_day == pricing.half_day
        catering_cost == pricing.price_per_person_catering * guests * days
        total_price   == IF include_catering
                         THEN price_per_day * days + catering_cost
                         ELSE price_per_day * days
    IN  [room_name       |-> room_name,
         room_category   |-> "Meeting Room",
         max_capacity    |-> hotel_data.max_capacity[room_name],
         price_per_night |-> None,
         price_per_day   |-> Some(price_per_day),
         total_price     |-> total_price,
         nights          |-> None,
         days            |-> Some(days),
         catering_note   |-> IF include_catering
                             THEN Some(pricing.price_per_person_catering)
                             ELSE None]

MeetingRoomOption(room_name, guests, days, include_catering) ==
    LET pricing       == MEETING_ROOM_PRICING[room_name]
        price_per_day == pricing.full_day
        catering_cost == pricing.price_per_person_catering * guests * days
        total_price   == IF include_catering
                         THEN price_per_day * days + catering_cost
                         ELSE price_per_day * days
    IN  [room_name       |-> room_name,
         room_category   |-> "Meeting Room",
         max_capacity    |-> hotel_data.max_capacity[room_name],
         price_per_night |-> None,
         price_per_day   |-> Some(price_per_day),
         total_price     |-> total_price,
         nights          |-> None,
         days            |-> Some(days),
         catering_note   |-> IF include_catering
                             THEN Some(pricing.price_per_person_catering)
                             ELSE None]

\* seeded fault: rooms are offered whatever their capacity
RECURSIVE MeetingOptionsUnfiltered(_, _, _, _)
MeetingOptionsUnfiltered(names, guests, days, include_catering) ==
    IF names = <<>> THEN <<>>
    ELSE LET room_name == Head(names)
             rest      == MeetingOptionsUnfiltered(Tail(names), guests, days, include_catering)
         IN  IF room_name \notin DOMAIN MEETING_ROOM_PRICING THEN rest
             ELSE <<MeetingRoomOption(room_name, guests, days, include_catering)>> \o rest

RECURSIVE MeetingOptionsFrom(_, _, _, _)
MeetingOptionsFrom(names, guests, days, include_catering) ==
    IF names = <<>> THEN <<>>
    ELSE LET room_name == Head(names)
             rest      == MeetingOptionsFrom(Tail(names), guests, days, include_catering)
         IN  IF hotel_data.max_capacity[room_name] < guests THEN rest
             ELSE IF room_name \notin DOMAIN MEETING_ROOM_PRICING THEN rest
             ELSE <<MeetingRoomOption(room_name, guests, days, include_catering)>> \o rest

_get_meeting_room_options(guests, days, include_catering) ==
    SortByPrice(MeetingOptionsFrom(hotel_data.meeting_rooms, guests, days, include_catering))

----------------------------------------------------------------------------
(***************************************************************************)
(* Dates.  A date string "YYYY-MM-DD" is the tuple <<y, m, d>> of its      *)
(* fields; any other tuple is a string strptime rejects.                   *)
(***************************************************************************)
IsLeap(y) == (y % 4 = 0 /\ y % 100 # 0) \/ y % 400 = 0

DaysInMonth(y, m) ==
    IF m = 2 THEN (IF IsLeap(y) THEN 29 ELSE 28)
    ELSE IF m \in {4, 6, 9, 11} THEN 30 ELSE 31

RECURSIVE DaysBeforeMonth(_, _)
DaysBeforeMonth(y, m) ==
    IF m <= 1 THEN 0 ELSE DaysBeforeMonth(y, m - 1) + DaysInMonth(y, m - 1)

\* datetime.strptime(s, "%Y-%m-%d") succeeds
DateParses(s) ==
    /\ Len(s) = 3
    /\ s[1] \in 1..9999
    /\ s[2] \in 1..12
    /\ s[3] \in 1..DaysInMonth(s[1], s[2])

\* date.toordinal(): (b - a).days is Ordinal(b) - Ordinal(a)
Ordinal(s) ==
    LET y == s[1] - 1
    IN  y * 365 + (y \div 4) - (y \div 100) + (y \div 400)
        + DaysBeforeMonth(s[1], s[2]) + s[3]

----------------------------------------------------------------------------
(***************************************************************************)
(* Booking identifiers.  A string is the tuple of its characters.          *)
(***************************************************************************)
DigitChar(d) ==
    CASE d = 0 -> "0" [] d = 1 -> "1" [] d = 2 -> "2" [] d = 3 -> "3" [] d = 4 -> "4"
      [] d = 5 -> "5" [] d = 6 -> "6" [] d = 7 -> "7" [] d = 8 -> "8" [] d = 9 -> "9"

RECURSIVE Decimal(_)
Decimal(n) ==
    IF n < 10 THEN <<DigitChar(n)>>
    ELSE Decimal(n \div 10) \o <<DigitChar(n % 10)>>

RECURSIVE ZeroPad(_, _)
ZeroPad(s, width) == IF Len(s) >= width THEN s ELSE ZeroPad(<<"0">> \o s, width)

\* f"BK-{counter:03d}"
FormatBookingId(counter) == <<"B", "K", "-">> \o ZeroPad(Decimal(counter), 3)

----------------------------------------------------------------------------
(***************************************************************************)
(* Ledger storage.  A file is missing, holds valid JSON (a list of         *)
(* records), or holds text json.load rejects.                              *)
(***************************************************************************)
MissingFile == [state |-> "missing", data |-> <<>>]
ValidFile(bookings) == [state |-> "valid", data |-> bookings]
CorruptFile == [state |-> "corrupt", data |-> <<>>]

\* a file that open() or the decoding of its bytes rejects with an exception
\* the loaders do not catch (PermissionError, UnicodeDecodeError)
UnreadableFile == [state |-> "unreadable", data |-> <<>>]

\* the loader returns: its except clause covers json.JSONDecodeError and
\* FileNotFoundError only
Readable(file) == file.state # "unreadable"

\* _load_pending_bookings / _load_confirmed_bookings
LoadBookings(file) == IF file.state = "valid" THEN file.data ELSE <<>>

_load_pending_bookings == LoadBookings(pendingFile)

\* seeded fault: the confirmed partition is always read as empty
LoadNoConfirmed == <<>>

_load_confirmed_bookings == LoadBookings(confirmedFile)

\* _save_pending_bookings / _save_confirmed_bookings: the file's new content
SaveBookings(bookings) == ValidFile(bookings)

IdsOf(bookings) == {bookings[i].booking_id : i \in 1..Len(bookings)}

\* seeded fault: the identifier is numbered by the count of records scanned
ProbeFromCount(counter, ids) == FormatBookingId(Cardinality(ids) + 1)

\* seeded fault: the probe returns its first candidate without consulting the scan
ProbeWithoutScan(counter, ids) == FormatBookingId(counter)

\* the while loop of _get_next_booking_id
RECURSIVE ProbeBookingId(_, _)
ProbeBookingId(counter, ids) ==
    IF FormatBookingId(counter) \notin ids THEN FormatBookingId(counter)
    ELSE ProbeBookingId(counter + 1, ids)

\* seeded fault: the pending lookup takes the first record, whatever its identifier
FirstOfAny(bookings, id) ==
    IF bookings = <<>> THEN None ELSE Some(Head(bookings))

\* first element of a list that satisfies a test, as the for/break loops do
RECURSIVE FirstWithId(_, _)
FirstWithId(bookings, id) ==
    IF bookings = <<>> THEN None
    ELSE IF Head(bookings).booking_id = id THEN Some(Head(bookings))
    ELSE FirstWithId(Tail(bookings), id)

\* seeded fault: the requested room name is trusted instead of looked up
RoomAsRequested(options, room_name) ==
    Some([room_name |-> room_name, total_price |-> 0])

\* seeded fault: the option lookup takes the first offered option, whatever its name
FirstOffered(options, room_name) ==
    IF options = <<>> THEN None ELSE Some(Head(options))

\* seeded fault: a room that was not offered is taken from the price list
FirstWithRoomOrListed(options, room_name) ==
    IF \E k \in DOMAIN options : options[k].room_name = room_name
    THEN Some(options[CHOOSE k \in DOMAIN options :
                         /\ options[k].room_name = room_name
                         /\ \A m \in 1..(k - 1) : options[m].room_name # room_name])
    ELSE IF room_name \in DOMAIN ROOM_PRICING
         THEN Some(HotelRoomOption(room_name, 1, 1))
         ELSE None

RECURSIVE FirstWithRoom(_, _)
FirstWithRoom(options, room_name) ==
    IF options = <<>> THEN None
    ELSE IF Head(options).room_name = room_name THEN Some(Head(options))
    ELSE FirstWithRoom(Tail(options), room_name)

\* seeded fault: the confirmed record is not filtered out of the pending list
WithoutNothing(bookings, id) == bookings

\* [b for b in pending_bookings if b.get("booking_id") != request.booking_id]
RECURSIVE WithoutId(_, _)
\* seeded fault: the first pending record is dropped, whichever it is
WithoutHead(bookings, id) == IF bookings = <<>> THEN <<>> ELSE Tail(bookings)

WithoutId(bookings, id) ==
    IF bookings = <<>> THEN <<>>
    ELSE IF Head(bookings).booking_id # id
         THEN <<Head(bookings)>> \o WithoutId(Tail(bookings), id)
         ELSE WithoutId(Tail(bookings), id)

\* seeded fault: the already-confirmed guard never fires
NeverConfirmed(bookings, id) == FALSE

\* the already-confirmed loop at the head of confirm_booking
AlreadyConfirmed(bookings, id) == id \in IdsOf(bookings)

----------------------------------------------------------------------------
(***************************************************************************)
(* Requests.                                                               *)
(***************************************************************************)
\* What _parse_booking_request extracts from the texts the model sends.
Inquiries ==
    { [original_request |-> "hotel room for 2 people, December 10th to 12th",
       extraction |-> "ok", room_type |-> "hotel",
       check_in |-> <<2025, 12, 10>>, check_out |-> <<2025, 12, 12>>,
       guests |-> 2, include_catering |-> FALSE],
      [original_request |-> "accommodation for 5 guests, one night",
       extraction |-> "ok", room_type |-> "hotel",
       check_in |-> <<2025, 12, 31>>, check_out |-> <<2026, 1, 1>>,
       guests |-> 5, include_catering |-> FALSE],
      [original_request |-> "meeting room for 30 attendees with catering",
       extraction |-> "ok", room_type |-> "meeting",
       check_in |-> <<2026, 1, 15>>, check_out |-> <<2026, 1, 16>>,
       guests |-> 30, include_catering |-> TRUE],
      [original_request |-> "hotel room for 2 people, same day",
       extraction |-> "ok", room_type |-> "hotel",
       check_in |-> <<2025, 12, 10>>, check_out |-> <<2025, 12, 10>>,
       guests |-> 2, include_catering |-> FALSE] }

\* what the extraction step hands to the validation of request_booking, one
\* inquiry per way of passing or failing it
ValidationInquiries ==
    { [original_request |-> "hotel room for 2 people, December 10th to 12th",
       extraction |-> "ok", room_type |-> "hotel",
       check_in |-> <<2025, 12, 10>>, check_out |-> <<2025, 12, 12>>,
       guests |-> 2, include_catering |-> FALSE],
      [original_request |-> "Hotel room for 1 person, two nights",
       extraction |-> "ok", room_type |-> "Hotel",
       check_in |-> <<2026, 2, 27>>, check_out |-> <<2026, 3, 1>>,
       guests |-> 1, include_catering |-> FALSE],
      [original_request |-> "meeting room for 30 attendees with catering",
       extraction |-> "ok", room_type |-> "meeting",
       check_in |-> <<2026, 1, 15>>, check_out |-> <<2026, 1, 16>>,
       guests |-> 30, include_catering |-> TRUE],
      [original_request |-> "what is the weather like",
       extraction |-> "no_json", room_type |-> "hotel",
       check_in |-> <<>>, check_out |-> <<>>,
       guests |-> 0, include_catering |-> FALSE],
      [original_request |-> "room for two (model call fails)",
       extraction |-> "api_error", room_type |-> "hotel",
       check_in |-> <<>>, check_out |-> <<>>,
       guests |-> 0, include_catering |-> FALSE],
      [original_request |-> "hotel room from February 30th",
       extraction |-> "ok", room_type |-> "hotel",
       check_in |-> <<2026, 2, 30>>, check_out |-> <<2026, 3, 2>>,
       guests |-> 2, include_catering |-> FALSE],
      [original_request |-> "hotel room for 2 people, same day",
       extraction |-> "ok", room_type |-> "hotel",
       check_in |-> <<2025, 12, 10>>, check_out |-> <<2025, 12, 10>>,
       guests |-> 2, include_catering |-> FALSE],
      [original_request |-> "hotel room from the 12th back to the 10th",
       extraction |-> "ok", room_type |-> "hotel",
       check_in |-> <<2025, 12, 12>>, check_out |-> <<2025, 12, 10>>,
       guests |-> 2, include_catering |-> FALSE],
      [original_request |-> "hotel room for nobody",
       extraction |-> "ok", room_type |-> "hotel",
       check_in |-> <<2025, 12, 10>>, check_out |-> <<2025, 12, 12>>,
       guests |-> 0, include_catering |-> FALSE],
      [original_request |-> "meeting room for 151 attendees",
       extraction |-> "ok", room_type |-> "meeting",
       check_in |-> <<2026, 1, 15>>, check_out |-> <<2026, 1, 16>>,
       guests |-> 151, include_catering |-> FALSE],
      [original_request |-> "hotel room for minus one guest",
       extraction |-> "ok", room_type |-> "hotel",
       check_in |-> <<2025, 12, 10>>, check_out |-> <<2025, 12, 12>>,
       guests |-> -1, include_catering |-> FALSE],
      [original_request |-> "hotel rooms for a group of 150, one night",
       extraction |-> "ok", room_type |-> "hotel",
       check_in |-> <<2025, 12, 31>>, check_out |-> <<2026, 1, 1>>,
       guests |-> 150, include_catering |-> FALSE],
      [original_request |-> "a suite for 2 people, December 10th to 12th",
       extraction |-> "ok", room_type |-> "suite",
       check_in |-> <<2025, 12, 10>>, check_out |-> <<2025, 12, 12>>,
       guests |-> 2, include_catering |-> FALSE] }

ConfirmRoomNames == {"DORMERO Zimmer", "Junior Suite", "Carolina Cik"}

ConfirmRequests ==
    [booking_id : {FormatBookingId(n) : n \in 1..MaxConfirmId},
     room_name  : ConfirmRoomNames]

NoRequest == [op |-> "none"]

Response(code, detail, id) == [code |-> code, detail |-> detail, booking_id |-> id]

NoResponse == Response(0, "", None)

\* str.lower() on the room types the model sends
Lower(room_type) ==
    CASE room_type = "Hotel"   -> "hotel"
      [] room_type = "MEETING" -> "meeting"
      [] OTHER                 -> room_type

\* seeded fault: a stay that ends on the day it begins passes the date check
InquiryErrorSameDayStay(inq) ==
    IF inq.extraction = "no_json"
        THEN Response(400, "Could not understand booking request", None)
    ELSE IF inq.extraction # "ok"
        THEN Response(500, "Error parsing request", None)
    ELSE IF ~DateParses(inq.check_in) \/ ~DateParses(inq.check_out)
        THEN Response(400, "Could not parse dates from your request", None)
    ELSE IF Ordinal(inq.check_out) < Ordinal(inq.check_in)
        THEN Response(400, "Check-out date must be after check-in date", None)
    ELSE IF inq.guests < 1 \/ inq.guests > 150
        THEN Response(400, "Number of guests must be between 1 and 150", None)
    ELSE NoResponse

\* seeded fault: an inquiry for zero guests passes the guest check
InquiryErrorNoGuests(inq) ==
    IF inq.extraction = "no_json"
        THEN Response(400, "Could not understand booking request", None)
    ELSE IF inq.extraction # "ok"
        THEN Response(500, "Error parsing request", None)
    ELSE IF ~DateParses(inq.check_in) \/ ~DateParses(inq.check_out)
        THEN Response(400, "Could not parse dates from your request", None)
    ELSE IF Ordinal(inq.check_out) <= Ordinal(inq.check_in)
        THEN Response(400, "Check-out date must be after check-in date", None)
    ELSE IF inq.guests < 0 \/ inq.guests > 150
        THEN Response(400, "Number of guests must be between 1 and 150", None)
    ELSE NoResponse

\* request_booking up to the allocation of the identifier: the error response
\* of an inquiry that is rejected, NoResponse for one that is accepted
InquiryError(inq) ==
    IF inq.extraction = "no_json"
        THEN Response(400, "Could not understand booking request", None)
    ELSE IF inq.extraction # "ok"
        THEN Response(500, "Error parsing request", None)
    ELSE IF ~DateParses(inq.check_in) \/ ~DateParses(inq.check_out)
        THEN Response(400, "Could not parse dates from your request", None)
    ELSE IF Ordinal(inq.check_out) <= Ordinal(inq.check_in)
        THEN Response(400, "Check-out date must be after check-in date", None)
    ELSE IF inq.guests < 1 \/ inq.guests > 150
        THEN Response(400, "Number of guests must be between 1 and 150", None)
    ELSE NoResponse

\* the pending_booking dict request_booking stores
PendingBooking(inq, id) ==
    LET duration  == Ordinal(inq.check_out) - Ordinal(inq.check_in)
        room_type == Lower(inq.room_type)
        options   == IF room_type = "hotel"
                     THEN _get_hotel_room_options(inq.guests, duration)
                     ELSE _get_meeting_room_options(inq.guests, duration,
                                                    inq.include_catering)
    IN  [booking_id        |-> id,
         original_request  |-> inq.original_request,
         room_type         |-> room_type,
         check_in          |-> inq.check_in,
         check_out         |-> inq.check_out,
         guests            |-> inq.guests,
         include_catering  |-> inq.include_catering,
         duration_nights   |-> IF room_type = "hotel" THEN Some(duration) ELSE None,
         duration_days     |-> IF room_type = "meeting" THEN Some(duration) ELSE None,
         available_options |-> options]

\* seeded fault: the selected room is priced again from the catalog's base rates
ConfirmedBookingRepriced(id, pending_booking, selected_room) ==
    [booking_id       |-> id,
     original_request |-> pending_booking.original_request,
     room_type        |-> pending_booking.room_type,
     check_in         |-> pending_booking.check_in,
     check_out        |-> pending_booking.check_out,
     guests           |-> pending_booking.guests,
     include_catering |-> pending_booking.include_catering,
     duration_nights  |-> pending_booking.duration_nights,
     duration_days    |-> pending_booking.duration_days,
     selected_room    |->
        [selected_room EXCEPT !.total_price =
            IF selected_room.room_category = "Hotel Room"
            THEN ROOM_PRICING[selected_room.room_name].base_price
                    * selected_room.nights[1]
            ELSE MEETING_ROOM_PRICING[selected_room.room_name].full_day
                    * selected_room.days[1]]]

\* the confirmed_booking dict confirm_booking stores
ConfirmedBooking(id, pending_booking, selected_room) ==
    [booking_id       |-> id,
     original_request |-> pending_booking.original_request,
     room_type        |-> pending_booking.room_type,
     check_in         |-> pending_booking.check_in,
     check_out        |-> pending_booking.check_out,
     guests           |-> pending_booking.guests,
     include_catering |-> pending_booking.include_catering,
     duration_nights  |-> pending_booking.duration_nights,
     duration_days    |-> pending_booking.duration_days,
     selected_room    |-> selected_room]

----------------------------------------------------------------------------
(***************************************************************************)
(* State.                                                                  *)
(***************************************************************************)
Init ==
    /\ pendingFile = MissingFile
    /\ confirmedFile = MissingFile
    /\ pc = [p \in Procs |-> "idle"]
    /\ req = [p \in Procs |-> NoRequest]
    /\ all_ids = [p \in Procs |-> {}]
    /\ booking_id = [p \in Procs |-> None]
    /\ pending_bookings = [p \in Procs |-> <<>>]
    /\ confirmed_bookings = [p \in Procs |-> <<>>]
    /\ booking = [p \in Procs |-> None]
    /\ resp = [p \in Procs |-> NoResponse]
    /\ log = <<>>
    /\ calls = 0
    /\ index_storage = "absent"
    /\ _query_engine = None

Files == <<pendingFile, confirmedFile>>
Rag == <<index_storage, _query_engine>>
Locals == <<all_ids, booking_id, pending_bookings, confirmed_bookings, booking>>

Respond(p, r) ==
    /\ resp' = [resp EXCEPT ![p] = r]
    /\ pc' = [pc EXCEPT ![p] = "done"]

(***************************************************************************)
(* POST /booking-request                                                   *)
(***************************************************************************)
\* parse, validate and price the inquiry
RequestBookingWith(p, inquiries) ==
    /\ pc[p] = "idle"
    /\ calls < MaxCalls
    /\ \E inq \in inquiries :
        /\ req' = [req EXCEPT ![p] = [op |-> "booking-request", inquiry |-> inq]]
        /\ IF InquiryError(inq) # NoResponse
           THEN Respond(p, InquiryError(inq))
           ELSE /\ pc' = [pc EXCEPT ![p] = "scan_pending"]
                /\ UNCHANGED resp
    /\ calls' = calls + 1
    /\ UNCHANGED <<Files, Locals, log>>
    /\ UNCHANGED Rag

RequestBooking(p) == RequestBookingWith(p, Inquiries)

\* _get_next_booking_id: pending = _load_pending_bookings()
ScanPending(p) ==
    /\ pc[p] = "scan_pending"
    /\ Readable(pendingFile)
    /\ all_ids' = [all_ids EXCEPT ![p] = IdsOf(_load_pending_bookings)]
    /\ pc' = [pc EXCEPT ![p] = "scan_confirmed"]
    /\ UNCHANGED <<Files, req, booking_id, pending_bookings, confirmed_bookings,
                   booking, resp, log, calls>>
    /\ UNCHANGED Rag

\* _get_next_booking_id: confirmed = _load_confirmed_bookings(), the probe loop,
\* and the pending_booking built from its result
\* seeded fault: a probe loop that tests the same candidate again instead of
\* advancing the counter, so it spins as soon as BK-001 is taken
ScanConfirmedStuck(p) ==
    /\ pc[p] = "scan_confirmed"
    /\ Readable(confirmedFile)
    /\ LET ids == all_ids[p] \cup IdsOf(_load_confirmed_bookings)
       IN  /\ all_ids' = [all_ids EXCEPT ![p] = ids]
           /\ IF FormatBookingId(1) \notin ids
              THEN /\ booking_id' = [booking_id EXCEPT ![p] = FormatBookingId(1)]
                   /\ booking' = [booking EXCEPT ![p] =
                                     Some(PendingBooking(req[p].inquiry, FormatBookingId(1)))]
                   /\ pc' = [pc EXCEPT ![p] = "load_pending"]
              ELSE UNCHANGED <<booking_id, booking, pc>>
    /\ UNCHANGED <<Files, req, pending_bookings, confirmed_bookings, resp, log, calls>>
    /\ UNCHANGED Rag

ScanConfirmed(p) ==
    /\ pc[p] = "scan_confirmed"
    /\ Readable(confirmedFile)
    /\ LET ids == all_ids[p] \cup IdsOf(_load_confirmed_bookings)
           id  == ProbeBookingId(1, ids)
       IN  /\ all_ids' = [all_ids EXCEPT ![p] = ids]
           /\ booking_id' = [booking_id EXCEPT ![p] = id]
           /\ booking' = [booking EXCEPT ![p] = Some(PendingBooking(req[p].inquiry, id))]
    /\ pc' = [pc EXCEPT ![p] = "load_pending"]
    /\ UNCHANGED <<Files, req, pending_bookings, confirmed_bookings, resp, log, calls>>
    /\ UNCHANGED Rag

\* seeded fault: an inquiry without options is not recorded
LoadPendingIfOffered(p) ==
    /\ pc[p] = "load_pending"
    /\ pending_bookings' = [pending_bookings EXCEPT
                               ![p] = IF booking[p][1].available_options = <<>>
                                      THEN _load_pending_bookings
                                      ELSE Append(_load_pending_bookings, booking[p][1])]
    /\ pc' = [pc EXCEPT ![p] = "save_pending"]
    /\ UNCHANGED <<Files, req, all_ids, booking_id, confirmed_bookings, booking,
                   resp, log, calls>>
    /\ UNCHANGED Rag

\* pending_bookings = _load_pending_bookings(); pending_bookings.append(...)
LoadPending(p) ==
    /\ pc[p] = "load_pending"
    /\ Readable(pendingFile)
    /\ pending_bookings' = [pending_bookings EXCEPT
                               ![p] = Append(_load_pending_bookings, booking[p][1])]
    /\ pc' = [pc EXCEPT ![p] = "save_pending"]
    /\ UNCHANGED <<Files, req, all_ids, booking_id, confirmed_bookings, booking,
                   resp, log, calls>>
    /\ UNCHANGED Rag

\* _save_pending_bookings(pending_bookings); return booking_response
SavePending(p) ==
    /\ pc[p] = "save_pending"
    /\ pendingFile' = SaveBookings(pending_bookings[p])
    /\ Respond(p, Response(200, "OK", booking_id[p]))
    /\ UNCHANGED <<confirmedFile, req, Locals, log, calls>>
    /\ UNCHANGED Rag

(***************************************************************************)
(* POST /confirm-booking                                                   *)
(***************************************************************************)
\* seeded fault: a repeated confirmation is answered as a success
ConfirmBookingIdempotent(p) ==
    /\ pc[p] = "idle"
    /\ calls < MaxCalls
    /\ \E r \in ConfirmRequests :
        /\ req' = [req EXCEPT ![p] = [op |-> "confirm-booking",
                                      booking_id |-> r.booking_id,
                                      room_name |-> r.room_name]]
        /\ confirmed_bookings' = [confirmed_bookings EXCEPT ![p] = _load_confirmed_bookings]
        /\ IF AlreadyConfirmed(_load_confirmed_bookings, r.booking_id)
           THEN Respond(p, Response(200, "OK", r.booking_id))
           ELSE /\ pc' = [pc EXCEPT ![p] = "confirm_load_pending"]
                /\ UNCHANGED resp
    /\ calls' = calls + 1
    /\ UNCHANGED <<Files, all_ids, booking_id, pending_bookings, booking, log>>
    /\ UNCHANGED Rag

\* confirmed_bookings = _load_confirmed_bookings() and the already-confirmed check
ConfirmBookingWith(p, requests) ==
    /\ pc[p] = "idle"
    /\ Readable(confirmedFile)
    /\ calls < MaxCalls
    /\ \E r \in requests :
        /\ req' = [req EXCEPT ![p] = [op |-> "confirm-booking",
                                      booking_id |-> r.booking_id,
                                      room_name |-> r.room_name]]
        /\ confirmed_bookings' = [confirmed_bookings EXCEPT ![p] = _load_confirmed_bookings]
        /\ IF AlreadyConfirmed(_load_confirmed_bookings, r.booking_id)
           THEN Respond(p, Response(400, "Booking already confirmed", None))
           ELSE /\ pc' = [pc EXCEPT ![p] = "confirm_load_pending"]
                /\ UNCHANGED resp
    /\ calls' = calls + 1
    /\ UNCHANGED <<Files, all_ids, booking_id, pending_bookings, booking, log>>
    /\ UNCHANGED Rag

ConfirmBooking(p) == ConfirmBookingWith(p, ConfirmRequests)

\* pending_bookings = _load_pending_bookings(), the two lookups, confirmed_booking
ConfirmLoadPending(p) ==
    /\ pc[p] = "confirm_load_pending"
    /\ Readable(pendingFile)
    /\ LET loaded          == _load_pending_bookings
           pending_booking == FirstWithId(loaded, req[p].booking_id)
           selected_room   == IF pending_booking = None THEN None
                              ELSE FirstWithRoom(pending_booking[1].available_options,
                                                 req[p].room_name)
       IN  /\ pending_bookings' = [pending_bookings EXCEPT ![p] = loaded]
           /\ IF pending_booking = None
              THEN /\ Respond(p, Response(400, "Booking ID not found", None))
                   /\ UNCHANGED booking
              ELSE IF selected_room = None
              THEN /\ Respond(p, Response(400, "Room option not available for this booking", None))
                   /\ UNCHANGED booking
              ELSE /\ booking' = [booking EXCEPT ![p] =
                          Some(ConfirmedBooking(req[p].booking_id, pending_booking[1],
                                                selected_room[1]))]
                   /\ pc' = [pc EXCEPT ![p] = "confirm_save_pending"]
                   /\ UNCHANGED resp
    /\ UNCHANGED <<Files, req, all_ids, booking_id, confirmed_bookings, log, calls>>
    /\ UNCHANGED Rag

\* pending_bookings = [b for b ...]; _save_pending_bookings(pending_bookings)
ConfirmSavePending(p) ==
    /\ pc[p] = "confirm_save_pending"
    /\ pending_bookings' = [pending_bookings EXCEPT
                               ![p] = WithoutId(pending_bookings[p], req[p].booking_id)]
    /\ pendingFile' = SaveBookings(WithoutId(pending_bookings[p], req[p].booking_id))
    /\ pc' = [pc EXCEPT ![p] = "confirm_save_confirmed"]
    /\ UNCHANGED <<confirmedFile, req, all_ids, booking_id, confirmed_bookings,
                   booking, resp, log, calls>>
    /\ UNCHANGED Rag

\* seeded fault: a confirmation that saves the confirmed partition without
\* the record it took out of the pending one
ConfirmSaveConfirmedDropsRecord(p) ==
    /\ pc[p] = "confirm_save_confirmed"
    /\ UNCHANGED confirmed_bookings
    /\ confirmedFile' = SaveBookings(confirmed_bookings[p])
    /\ Respond(p, Response(200, "OK", req[p].booking_id))
    /\ UNCHANGED <<pendingFile, req, all_ids, booking_id, pending_bookings,
                   booking, log, calls>>
    /\ UNCHANGED Rag

\* seeded fault: the confirmed record is put in front of the others
ConfirmSaveConfirmedInFront(p) ==
    /\ pc[p] = "confirm_save_confirmed"
    /\ confirmed_bookings' = [confirmed_bookings EXCEPT
                                 ![p] = <<booking[p][1]>> \o confirmed_bookings[p]]
    /\ confirmedFile' = SaveBookings(<<booking[p][1]>> \o confirmed_bookings[p])
    /\ Respond(p, Response(200, "OK", req[p].booking_id))
    /\ UNCHANGED <<pendingFile, req, all_ids, booking_id, pending_bookings,
                   booking, log, calls>>
    /\ UNCHANGED Rag

\* confirmed_bookings.append(confirmed_booking); _save_confirmed_bookings(...)
ConfirmSaveConfirmed(p) ==
    /\ pc[p] = "confirm_save_confirmed"
    /\ confirmed_bookings' = [confirmed_bookings EXCEPT
                                 ![p] = Append(confirmed_bookings[p], booking[p][1])]
    /\ confirmedFile' = SaveBookings(Append(confirmed_bookings[p], booking[p][1]))
    /\ Respond(p, Response(200, "OK", req[p].booking_id))
    /\ UNCHANGED <<pendingFile, req, all_ids, booking_id, pending_bookings,
                   booking, log, calls>>
    /\ UNCHANGED Rag

(***************************************************************************)
(* The response leaves the process; the call enters the history.           *)
(***************************************************************************)
LogEntry(p) ==
    [op         |-> req[p].op,
     code       |-> resp[p].code,
     detail     |-> resp[p].detail,
     booking_id |-> IF req[p].op = "confirm-booking" THEN req[p].booking_id
                    ELSE resp[p].booking_id,
     room_name  |-> IF req[p].op = "confirm-booking" THEN req[p].room_name ELSE "",
     booking    |-> IF resp[p].code = 200 THEN booking[p] ELSE None,
     engine     |-> IF req[p].op = "query" THEN resp[p].engine ELSE None]

Forget(p) ==
    /\ pc' = [pc EXCEPT ![p] = "idle"]
    /\ req' = [req EXCEPT ![p] = NoRequest]
    /\ all_ids' = [all_ids EXCEPT ![p] = {}]
    /\ booking_id' = [booking_id EXCEPT ![p] = None]
    /\ pending_bookings' = [pending_bookings EXCEPT ![p] = <<>>]
    /\ confirmed_bookings' = [confirmed_bookings EXCEPT ![p] = <<>>]
    /\ booking' = [booking EXCEPT ![p] = None]
    /\ resp' = [resp EXCEPT ![p] = NoResponse]

Return(p) ==
    /\ pc[p] = "done"
    /\ log' = Append(log, LogEntry(p))
    /\ Forget(p)
    /\ UNCHANGED <<Files, calls>>
    /\ UNCHANGED Rag

(***************************************************************************)
(* The server process is killed while it serves a request: between two     *)
(* file operations, or inside a write (open(path, "w") has truncated the   *)
(* file and json.dump has not finished).                                   *)
(***************************************************************************)
InFlight == {"scan_pending", "scan_confirmed", "load_pending", "save_pending",
             "confirm_load_pending", "confirm_save_pending", "confirm_save_confirmed"}

Crash(p) ==
    /\ pc[p] \in InFlight
    /\ Forget(p)
    /\ UNCHANGED <<Files, log, calls>>
    /\ UNCHANGED Rag

CrashInPendingWrite(p) ==
    /\ pc[p] \in {"save_pending", "confirm_save_pending"}
    /\ pendingFile' = CorruptFile
    /\ Forget(p)
    /\ UNCHANGED <<confirmedFile, log, calls>>
    /\ UNCHANGED Rag

CrashInConfirmedWrite(p) ==
    /\ pc[p] = "confirm_save_confirmed"
    /\ confirmedFile' = CorruptFile
    /\ Forget(p)
    /\ UNCHANGED <<pendingFile, log, calls>>
    /\ UNCHANGED Rag

----------------------------------------------------------------------------
(***************************************************************************)
(* A load raises an exception the loader does not catch: it propagates out *)
(* of the handler and the call is answered 500.                            *)
(***************************************************************************)
InternalServerError == Response(500, "Internal Server Error", None)

LoadRaises(p) ==
    \/ /\ pc[p] \in {"scan_pending", "load_pending", "confirm_load_pending"}
       /\ ~Readable(pendingFile)
       /\ Respond(p, InternalServerError)
       /\ UNCHANGED <<Files, req, Locals, log, calls>>
       /\ UNCHANGED Rag
    \/ /\ pc[p] = "scan_confirmed"
       /\ ~Readable(confirmedFile)
       /\ Respond(p, InternalServerError)
       /\ UNCHANGED <<Files, req, Locals, log, calls>>
       /\ UNCHANGED Rag
    \/ /\ pc[p] = "idle"
       /\ calls < MaxCalls
       /\ ~Readable(confirmedFile)
       /\ \E r \in ConfirmRequests :
             req' = [req EXCEPT ![p] = [op |-> "confirm-booking",
                                        booking_id |-> r.booking_id,
                                        room_name |-> r.room_name]]
       /\ Respond(p, InternalServerError)
       /\ calls' = calls + 1
       /\ UNCHANGED <<Files, Locals, log>>
       /\ UNCHANGED Rag

(***************************************************************************)
(* Between two calls the storage of a partition is lost or damaged from    *)
(* outside the service.                                                    *)
(***************************************************************************)
DamagePending ==
    /\ \A p \in Procs : pc[p] = "idle"
    /\ \E file \in {MissingFile, CorruptFile, UnreadableFile} :
          /\ pendingFile # file
          /\ pendingFile' = file
    /\ UNCHANGED <<confirmedFile, pc, req, Locals, resp, log, calls>>
    /\ UNCHANGED Rag

DamageConfirmed ==
    /\ \A p \in Procs : pc[p] = "idle"
    /\ \E file \in {MissingFile, CorruptFile, UnreadableFile} :
          /\ confirmedFile # file
          /\ confirmedFile' = file
    /\ UNCHANGED <<pendingFile, pc, req, Locals, resp, log, calls>>
    /\ UNCHANGED Rag

Step(p) ==
    \/ RequestBooking(p)
    \/ ScanPending(p)
    \/ ScanConfirmed(p)
    \/ LoadPending(p)
    \/ SavePending(p)
    \/ ConfirmBooking(p)
    \/ ConfirmLoadPending(p)
    \/ ConfirmSavePending(p)
    \/ ConfirmSaveConfirmed(p)
    \/ Return(p)

Next == Step("p1")

Spec == Init /\ [][Next]_vars

\* the steps that carry a call on after its first one
ContinueCall(p) ==
    \/ ScanPending(p)
    \/ ScanConfirmed(p)
    \/ LoadPending(p)
    \/ SavePending(p)
    \/ ConfirmLoadPending(p)
    \/ ConfirmSavePending(p)
    \/ ConfirmSaveConfirmed(p)
    \/ Return(p)

\* the inquiries that are rejected or resolve to a single option, and the
\* confirmations of that option or of one that was not offered
LiveInquiries ==
    {inq \in Inquiries : inq.room_type = "meeting" \/ inq.check_in = inq.check_out}

LiveConfirmRequests ==
    {r \in ConfirmRequests : r.room_name \in {"Carolina Cik", "DORMERO Zimmer"}}

LiveNext ==
    \/ RequestBookingWith("p1", LiveInquiries)
    \/ ConfirmBookingWith("p1", LiveConfirmRequests)
    \/ ContinueCall("p1")

\* every handler is a coroutine without an await: once the event loop has
\* started a call it runs it to its return, so a continuation step that stays
\* enabled is eventually taken; nothing obliges a client to send a call
LiveSpec == Init /\ [][LiveNext]_vars /\ WF_vars(ContinueCall("p1"))

ConcNext == \E p \in Procs : Step(p)

ConcSpec == Init /\ [][ConcNext]_vars

CrashNext ==
    \/ Step("p1")
    \/ Crash("p1")
    \/ CrashInPendingWrite("p1")
    \/ CrashInConfirmedWrite("p1")

CrashSpec == Init /\ [][CrashNext]_vars

\* booking requests only, served one after the other, over the inquiries that
\* exercise the validation
InquiryNext ==
    \/ RequestBookingWith("p1", ValidationInquiries)
    \/ ScanPending("p1")
    \/ ScanConfirmed("p1")
    \/ LoadPending("p1")
    \/ SavePending("p1")
    \/ Return("p1")

InquirySpec == Init /\ [][InquiryNext]_vars

\* the inquiries the service accepts and has rooms for
OfferedInquiries ==
    {inq \in Inquiries :
        InquiryError(inq) = NoResponse /\ PendingBooking(inq, None).available_options # <<>>}

DamageNext ==
    \/ RequestBookingWith("p1", OfferedInquiries)
    \/ ScanPending("p1")
    \/ ScanConfirmed("p1")
    \/ LoadPending("p1")
    \/ SavePending("p1")
    \/ ConfirmBooking("p1")
    \/ ConfirmLoadPending("p1")
    \/ ConfirmSavePending("p1")
    \/ ConfirmSaveConfirmed("p1")
    \/ Return("p1")
    \/ LoadRaises("p1")
    \/ DamagePending
    \/ DamageConfirmed

DamageSpec == Init /\ [][DamageNext]_vars

----------------------------------------------------------------------------
(***************************************************************************)
(* Properties.                                                             *)
(***************************************************************************)
PendingIds == IdsOf(pendingFile.data)
ConfirmedIds == IdsOf(confirmedFile.data)
Ledger == pendingFile.data \o confirmedFile.data

Booked(i) == log[i].op = "booking-request" /\ log[i].code = 200
Confirmed(i) == log[i].op = "confirm-booking" /\ log[i].code = 200
ConfirmCall(i) == log[i].op = "confirm-booking"

RoomNamesOf(options) == {options[k].room_name : k \in 1..Len(options)}

CountWithId(bookings, id) ==
    Cardinality({k \in 1..Len(bookings) : bookings[k].booking_id = id})

OptionNotAvailable == Response(400, "Room option not available for this booking", None)
BookingIdNotFound == Response(400, "Booking ID not found", None)
BookingAlreadyConfirmed == Response(400, "Booking already confirmed", None)

\* C1: with the calls served one after the other, no two records of the
\* ledger, in the same or in different partitions, share a booking_id.
C1_UniqueIds ==
    \A i, j \in 1..Len(Ledger) :
        i # j => Ledger[i].booking_id # Ledger[j].booking_id

C1_Witness ==
    /\ pc["p1"] = "idle"
    /\ Len(pendingFile.data) >= 2
    /\ Len(confirmedFile.data) >= 1

AllocatedIds ==
    {booking_id[p] : p \in {q \in Procs : booking_id[q] # None}}
        \cup {log[i].booking_id : i \in {k \in DOMAIN log : Booked(k)}}

\* C2: every identifier that has been allocated (held by a request in flight
\* or returned to a caller) is in exactly one of the two partitions, in every
\* state, the states between two file operations of a handler included.
C2_ExactlyOnePartition ==
    \A id \in AllocatedIds : (id \in PendingIds) # (id \in ConfirmedIds)

\* C3: no two successful booking requests obtain the same identifier, also
\* when their scan and persist steps interleave.
C3_DistinctIssuedIds ==
    \A i, j \in DOMAIN log :
        (i # j /\ Booked(i) /\ Booked(j)) => log[i].booking_id # log[j].booking_id

ValidConfirm(j) ==
    /\ ConfirmCall(j)
    /\ \E i \in 1..(j - 1) :
          /\ Booked(i)
          /\ log[i].booking_id = log[j].booking_id
          /\ log[j].room_name \in RoomNamesOf(log[i].booking[1].available_options)
    /\ \A i \in 1..(j - 1) : ~(Confirmed(i) /\ log[i].booking_id = log[j].booking_id)

\* C4: of two confirm calls in sequence for the same identifier, a call with
\* an offered room name on a pending booking succeeds, every call after a
\* successful one fails with "Booking already confirmed", and the confirmed
\* partition then holds exactly one record for the identifier.
C4_ConfirmTwice ==
    /\ \A j \in DOMAIN log : ValidConfirm(j) => log[j].code = 200
    /\ \A i, j \in DOMAIN log :
          (i < j /\ Confirmed(i) /\ ConfirmCall(j)
                 /\ log[i].booking_id = log[j].booking_id)
              => /\ log[j].code = BookingAlreadyConfirmed.code
                 /\ log[j].detail = BookingAlreadyConfirmed.detail
    /\ \A i \in DOMAIN log :
          Confirmed(i) => CountWithId(confirmedFile.data, log[i].booking_id) = 1

C4_Witness ==
    \E i, j \in DOMAIN log :
        /\ i < j
        /\ ValidConfirm(i) /\ Confirmed(i)
        /\ ConfirmCall(j) /\ log[j].booking_id = log[i].booking_id
        /\ log[j].room_name = log[i].room_name
        /\ log[j].detail = BookingAlreadyConfirmed.detail

\* C5: of the confirm calls for one identifier at most one succeeds, also when
\* their load, check and save steps interleave, and the confirmed partition
\* then holds exactly one record for it.
C5_OneConfirmSucceeds ==
    /\ \A i, j \in DOMAIN log :
          (i # j /\ Confirmed(i) /\ Confirmed(j))
              => log[i].booking_id # log[j].booking_id
    /\ \A i \in DOMAIN log :
          Confirmed(i) => CountWithId(confirmedFile.data, log[i].booking_id) = 1

\* C6: when the process dies inside confirm_booking after the pending record
\* was found, the booking is still recorded in one of the two partitions; the
\* kills that tear a write and leave a file unreadable are set aside here.
C6_CrashKeepsBooking ==
    [][(/\ pc["p1"] \in {"confirm_save_pending", "confirm_save_confirmed"}
        /\ pc'["p1"] = "idle"
        /\ pendingFile'.state # "corrupt"
        /\ confirmedFile'.state # "corrupt")
          => req["p1"].booking_id
                \in IdsOf(pendingFile'.data) \cup IdsOf(confirmedFile'.data)]_vars

\* C7: when confirm_booking answers 200, the identifier is absent from the
\* pending partition and present once in the confirmed partition, in a record
\* that carries the identifier and the inquiry of the pending record issued
\* under that identifier.
C7_MovedToConfirmed ==
    \A p \in Procs :
        (pc[p] = "done" /\ req[p].op = "confirm-booking" /\ resp[p].code = 200)
            => /\ req[p].booking_id \notin PendingIds
               /\ CountWithId(confirmedFile.data, req[p].booking_id) = 1
               /\ resp[p].booking_id = req[p].booking_id
               /\ \E k \in 1..Len(confirmedFile.data), i \in DOMAIN log :
                     /\ Booked(i)
                     /\ log[i].booking_id = req[p].booking_id
                     /\ confirmedFile.data[k].booking_id = log[i].booking[1].booking_id
                     /\ confirmedFile.data[k].original_request
                            = log[i].booking[1].original_request

C7_Witness ==
    /\ pc["p1"] = "done"
    /\ req["p1"].op = "confirm-booking"
    /\ resp["p1"].code = 200
    /\ Len(pendingFile.data) >= 1

\* C8: the selected_room of every confirmed record has the room name of one of
\* the options offered, at inquiry time, in the pending record of the same
\* identifier.
C8_SelectedWasOffered ==
    \A k \in 1..Len(confirmedFile.data) :
        \E i \in DOMAIN log :
            /\ Booked(i)
            /\ log[i].booking_id = confirmedFile.data[k].booking_id
            /\ confirmedFile.data[k].selected_room.room_name
                   \in RoomNamesOf(log[i].booking[1].available_options)

C8_Witness ==
    /\ Len(confirmedFile.data) >= 2
    /\ confirmedFile.data[1].selected_room.room_name
           # confirmedFile.data[2].selected_room.room_name

NotOfferedCase(p) ==
    /\ req[p].op = "confirm-booking"
    /\ req[p].booking_id \in PendingIds
    /\ req[p].booking_id \notin ConfirmedIds
    /\ req[p].room_name
          \notin RoomNamesOf(FirstWithId(pendingFile.data, req[p].booking_id)[1].available_options)

\* C9: a confirm call for a pending booking whose room name is none of the
\* offered ones ends with "Room option not available for this booking" and
\* none of its steps changes either partition (so the record is still there
\* for a later confirm with an offered name).
C9_OptionNotAvailable ==
    [][NotOfferedCase("p1")'
          => /\ UNCHANGED <<pendingFile, confirmedFile>>
             /\ pc'["p1"] \in {"confirm_load_pending", "done"}
             /\ pc'["p1"] = "done" => resp'["p1"] = OptionNotAvailable]_vars

C9_Witness ==
    \E i, j \in DOMAIN log :
        /\ i < j
        /\ ConfirmCall(i) /\ log[i].detail = OptionNotAvailable.detail
        /\ Confirmed(j) /\ log[j].booking_id = log[i].booking_id
        /\ log[j].booking_id \in ConfirmedIds

UnknownCase(p) ==
    /\ req[p].op = "confirm-booking"
    /\ req[p].booking_id \notin PendingIds
    /\ req[p].booking_id \notin ConfirmedIds

\* C10: a confirm call whose identifier is in neither partition when it is
\* received goes from its first load to the lookup and ends there with
\* "Booking ID not found"; none of its steps changes either partition.
C10_UnknownBooking ==
    [][(pc["p1"] \in {"idle", "confirm_load_pending"} /\ UnknownCase("p1")')
          => /\ UNCHANGED <<pendingFile, confirmedFile>>
             /\ pc'["p1"] \in {"confirm_load_pending", "done"}
             /\ pc'["p1"] = "done" => resp'["p1"] = BookingIdNotFound]_vars

C10_Witness ==
    /\ pc["p1"] = "done"
    /\ req["p1"].op = "confirm-booking"
    /\ resp["p1"] = BookingIdNotFound
    /\ Len(pendingFile.data) >= 1

\* C11: the already-confirmed check comes first: a confirm call whose
\* identifier is in the confirmed partition ends at once with "Booking already
\* confirmed", whatever room name it gives and whatever the pending partition
\* holds, and changes neither partition.
C11_AlreadyConfirmedFirst ==
    [][\A p \in Procs :
          (/\ pc[p] = "idle"
           /\ req'[p].op = "confirm-booking"
           /\ req'[p].booking_id \in ConfirmedIds)
             => /\ pc'[p] = "done"
                /\ resp'[p] = BookingAlreadyConfirmed
                /\ UNCHANGED <<pendingFile, confirmedFile>>]_vars

C11_Witness ==
    /\ pc["p1"] = "done"
    /\ resp["p1"] = BookingAlreadyConfirmed
    /\ req["p1"].booking_id \in ConfirmedIds
    /\ Len(pendingFile.data) >= 1
    /\ \E i \in DOMAIN log :
          /\ Booked(i)
          /\ log[i].booking_id = req["p1"].booking_id
          /\ req["p1"].room_name \notin RoomNamesOf(log[i].booking[1].available_options)

\* process p takes a step that loads a partition file: the two loads of the
\* identifier scan, the load before the append, and the two loads of a confirm
ReadsLedger(p) ==
    \/ /\ pc[p] \in {"scan_pending", "scan_confirmed", "load_pending",
                     "confirm_load_pending"}
       /\ pc'[p] # pc[p]
    \/ /\ pc[p] = "idle"
       /\ pc'[p] # "idle"
       /\ req'[p].op = "confirm-booking"

\* process q is confirming: it has passed both checks and has a write to do
Confirming(q) == pc[q] \in {"confirm_save_pending", "confirm_save_confirmed"}

\* the record is in neither partition file, or in both
Torn(id) == (id \in PendingIds) = (id \in ConfirmedIds)

\* C12: a read of the ledger that runs concurrently with a confirmation sees a
\* consistent snapshot: no load made by another call finds the record being
\* confirmed removed from pending and not yet in confirmed, or in both.
C12_ConsistentSnapshot ==
    [][\A p, q \in Procs :
          (p # q /\ Confirming(q) /\ ReadsLedger(p)) => ~Torn(req[q].booking_id)]_vars

\* no call is being served
Quiescent == \A p \in Procs : pc[p] = "idle"

\* C13: concurrent booking requests and confirmations do not lose each other's
\* writes: once every call has returned, every identifier returned by a booking
\* request is recorded in the ledger and every identifier whose confirmation
\* succeeded is in the confirmed partition.
C13_NoLostWrite ==
    Quiescent =>
        /\ \A i \in DOMAIN log :
              Booked(i) => log[i].booking_id \in PendingIds \cup ConfirmedIds
        /\ \A i \in DOMAIN log :
              Confirmed(i) => log[i].booking_id \in ConfirmedIds

\* C14: CONFIRMED is terminal: an identifier that is in the confirmed partition
\* is still there after every step and is not in the pending partition after
\* it, under any sequence or interleaving of booking-request and confirm calls.
C14_ConfirmedIsTerminal ==
    [][\A id \in ConfirmedIds : id \in ConfirmedIds' /\ id \notin PendingIds']_vars

\* s is an initial segment of t
IsPrefix(s, t) == Len(s) <= Len(t) /\ SubSeq(t, 1, Len(s)) = s

RemovedByConfirm(id) ==
    /\ pc["p1"] = "confirm_save_pending"
    /\ pc'["p1"] = "confirm_save_confirmed"
    /\ req["p1"].booking_id = id
    /\ id \notin PendingIds'

C17_NeverReissued ==
    (/\ pc["p1"] = "done"
     /\ req["p1"].op = "booking-request"
     /\ resp["p1"].code = 200)
        => \A i \in DOMAIN log :
              Booked(i) => log[i].booking_id # resp["p1"].booking_id

\* the number a string of decimal digits denotes
DigitValue(c) ==
    CASE c = "0" -> 0 [] c = "1" -> 1 [] c = "2" -> 2 [] c = "3" -> 3 [] c = "4" -> 4
      [] c = "5" -> 5 [] c = "6" -> 6 [] c = "7" -> 7 [] c = "8" -> 8 [] c = "9" -> 9

RECURSIVE NumberOf(_)
NumberOf(digits) ==
    IF digits = <<>> THEN 0
    ELSE 10 * NumberOf(SubSeq(digits, 1, Len(digits) - 1)) + DigitValue(digits[Len(digits)])

\* id is "BK-" followed by n in decimal, padded with zeros to three digits
IsBookingIdOf(id, n) ==
    /\ Len(id) >= 6
    /\ SubSeq(id, 1, 3) = <<"B", "K", "-">>
    /\ LET digits == SubSeq(id, 4, Len(id))
       IN  /\ \A k \in 1..Len(digits) :
                 digits[k] \in {"0", "1", "2", "3", "4", "5", "6", "7", "8", "9"}
           /\ NumberOf(digits) = n
           /\ Len(digits) > 3 => digits[1] # "0"

\* C18: the allocator returns BK-<n>, zero-padded to three digits, for the
\* smallest n >= 1 whose identifier is not the booking_id of a record currently
\* in pending or confirmed; the identifier returned differs from every
\* identifier present when it was called.
C18_SmallestFreeId ==
    pc["p1"] = "load_pending" =>
        LET present == PendingIds \cup ConfirmedIds
            id      == booking_id["p1"]
        IN  /\ id \notin present
            /\ \E n \in 1..(Cardinality(present) + 1) :
                  /\ IsBookingIdOf(id, n)
                  /\ \A m \in 1..(n - 1) : \E b \in present : IsBookingIdOf(b, m)

C18_Witness ==
    /\ pc["p1"] = "load_pending"
    /\ <<"B", "K", "-", "0", "0", "2">> \in PendingIds \cup ConfirmedIds
    /\ booking_id["p1"] = <<"B", "K", "-", "0", "0", "1">>

\* the two room types the service knows
KnownRoomTypes == {"hotel", "meeting"}

\* the inquiry is one the validation has to reject: the extraction failed, a
\* date does not parse, check-out is not after check-in, the guest count is
\* outside 1..150, or the room type is not a known one
FailsValidation(inq) ==
    \/ inq.extraction # "ok"
    \/ ~DateParses(inq.check_in)
    \/ ~DateParses(inq.check_out)
    \/ Ordinal(inq.check_out) <= Ordinal(inq.check_in)
    \/ inq.guests < 1
    \/ inq.guests > 150
    \/ Lower(inq.room_type) \notin KnownRoomTypes

\* C19: an inquiry that fails validation, or whose extraction fails, never
\* reaches the ledger: the call ends with an error at once, both partitions
\* are unchanged and no identifier is consumed.
C19_FailedInquiryNoEffect ==
    [][(/\ pc["p1"] = "idle"
        /\ req'["p1"].op = "booking-request"
        /\ FailsValidation(req'["p1"].inquiry))
          => /\ pc'["p1"] = "done"
             /\ resp'["p1"].code \in {400, 500}
             /\ UNCHANGED <<pendingFile, confirmedFile>>]_vars

\* C20: a room type other than "hotel" and "meeting" makes the inquiry fail
\* explicitly, and no pending record is ever stored whose room_type is not
\* "hotel" or "meeting".
C20_UnknownRoomTypeFails ==
    /\ \A k \in DOMAIN pendingFile.data :
          pendingFile.data[k].room_type \in KnownRoomTypes
    /\ (/\ pc["p1"] = "done"
        /\ req["p1"].op = "booking-request"
        /\ Lower(req["p1"].inquiry.room_type) \notin KnownRoomTypes)
          => resp["p1"].code # 200

DateOrderError == Response(400, "Check-out date must be after check-in date", None)

\* the extraction succeeded, both dates parse, and check-out is not after check-in
DatesOutOfOrder(inq) ==
    /\ inq.extraction = "ok"
    /\ DateParses(inq.check_in)
    /\ DateParses(inq.check_out)
    /\ Ordinal(inq.check_out) <= Ordinal(inq.check_in)

\* C21: an inquiry whose check-out date is equal to or earlier than its
\* check-in date is rejected with the date-ordering error in the first step of
\* the call: no option is priced, no identifier is allocated, nothing is written.
C21_DateOrderRejected ==
    [][(/\ pc["p1"] = "idle"
        /\ req'["p1"].op = "booking-request"
        /\ DatesOutOfOrder(req'["p1"].inquiry))
          => /\ pc'["p1"] = "done"
             /\ resp'["p1"] = DateOrderError
             /\ booking_id'["p1"] = None
             /\ booking'["p1"] = None
             /\ UNCHANGED <<pendingFile, confirmedFile>>]_vars

C21_Witness ==
    /\ pc["p1"] = "done"
    /\ resp["p1"] = DateOrderError
    /\ req["p1"].inquiry.check_in = req["p1"].inquiry.check_out
    /\ Len(pendingFile.data) >= 1
    /\ \E i \in DOMAIN log :
          /\ log[i].code = 400
          /\ log[i].detail = DateOrderError.detail

GuestCountError == Response(400, "Number of guests must be between 1 and 150", None)

\* the inquiry gets as far as the guest check: the extraction succeeded and
\* the dates parse and are in order
ReachesGuestCheck(inq) ==
    /\ inq.extraction = "ok"
    /\ DateParses(inq.check_in)
    /\ DateParses(inq.check_out)
    /\ Ordinal(inq.check_out) > Ordinal(inq.check_in)

\* C22: an inquiry is accepted only if its guest count is in 1..150: a count of
\* 0, a negative count and 151 are answered with the guest-count error, 1 and
\* 150 are accepted, and every pending record has a guest count in 1..150.
C22_GuestBounds ==
    /\ \A k \in DOMAIN pendingFile.data : pendingFile.data[k].guests \in 1..150
    /\ (pc["p1"] = "done" /\ req["p1"].op = "booking-request") =>
          LET inq == req["p1"].inquiry
          IN  /\ resp["p1"].code = 200 => inq.guests \in 1..150
              /\ ReachesGuestCheck(inq) =>
                    IF inq.guests \in 1..150
                    THEN resp["p1"].code = 200
                    ELSE resp["p1"] = GuestCountError

C22_Witness ==
    /\ pc["p1"] = "done"
    /\ resp["p1"].code = 200
    /\ req["p1"].inquiry.guests = 150
    /\ \E k \in DOMAIN pendingFile.data : pendingFile.data[k].guests = 1
    /\ \E i, j, k \in DOMAIN log :
          /\ i < j /\ j < k
          /\ log[i].detail = GuestCountError.detail
          /\ log[j].detail = GuestCountError.detail
          /\ log[k].code = 200

----------------------------------------------------------------------------
(***************************************************************************)
(* The resolver on its own: request_booking's pricing step applied to      *)
(* guest counts around every capacity of the catalog, and the closing sort *)
(* applied to option lists that have equal totals.                         *)
(***************************************************************************)
GuestCounts == (1..MaxGuests) \cup {20, 21, 30, 100, 101, 150}

SampleOptions == [room_name : {"Room A", "Room B", "Room C"}, total_price : {100, 200}]

OptionLists == UNION {[1..n -> SampleOptions] : n \in 0..MaxOptions}

\* the options in the order the loop over the catalog appends them
CatalogOrder(room_type, guests, duration, include_catering) ==
    IF room_type = "hotel"
    THEN HotelOptionsFrom(hotel_data.room_details, guests, duration)
    ELSE MeetingOptionsFrom(hotel_data.meeting_rooms, guests, duration, include_catering)

\* options = _get_hotel_room_options(...) or _get_meeting_room_options(...)
ResolveOptions(p) ==
    /\ pc[p] = "idle"
    /\ \E room_type \in {"hotel", "meeting"}, guests \in GuestCounts,
          duration \in 1..MaxDuration, include_catering \in BOOLEAN :
        /\ req' = [req EXCEPT ![p] = [op               |-> "resolve-options",
                                      room_type        |-> room_type,
                                      guests           |-> guests,
                                      duration         |-> duration,
                                      include_catering |-> include_catering]]
        /\ booking' = [booking EXCEPT ![p] =
              Some([unsorted          |-> CatalogOrder(room_type, guests, duration,
                                                       include_catering),
                    available_options |->
                        IF room_type = "hotel"
                        THEN _get_hotel_room_options(guests, duration)
                        ELSE _get_meeting_room_options(guests, duration,
                                                       include_catering)])]
    /\ pc' = [pc EXCEPT ![p] = "resolved"]
    /\ UNCHANGED <<Files, all_ids, booking_id, pending_bookings, confirmed_bookings,
                   resp, log, calls>>
    /\ UNCHANGED Rag

\* options.sort(key=lambda x: x.total_price)
SortOptions(p) ==
    /\ pc[p] = "idle"
    /\ \E options \in OptionLists :
        /\ req' = [req EXCEPT ![p] = [op |-> "sort-options"]]
        /\ booking' = [booking EXCEPT ![p] =
              Some([unsorted |-> options, available_options |-> SortByPrice(options)])]
    /\ pc' = [pc EXCEPT ![p] = "resolved"]
    /\ UNCHANGED <<Files, all_ids, booking_id, pending_bookings, confirmed_bookings,
                   resp, log, calls>>
    /\ UNCHANGED Rag

Resolved(p) ==
    /\ pc[p] = "resolved"
    /\ Forget(p)
    /\ UNCHANGED <<Files, log, calls>>
    /\ UNCHANGED Rag

ResolveNext ==
    \/ ResolveOptions("p1")
    \/ SortOptions("p1")
    \/ Resolved("p1")

ResolveSpec == Init /\ [][ResolveNext]_vars

\* the resolver has returned for a hotel / a meeting inquiry
HotelResolved == pc["p1"] = "resolved" /\ req["p1"].op = "resolve-options"
                    /\ req["p1"].room_type = "hotel"
MeetingResolved == pc["p1"] = "resolved" /\ req["p1"].op = "resolve-options"
                      /\ req["p1"].room_type = "meeting"
Options == booking["p1"][1].available_options

\* C23: for every hotel room of the catalog that holds the guests, the resolved
\* option has price_per_night = base_price + max(0, guests - 1) *
\* price_per_extra_guest, without the surcharge for a room with max_guests = 1,
\* and total_price = price_per_night * nights.
C23_HotelPrice ==
    HotelResolved =>
        LET guests == req["p1"].guests
            nights == req["p1"].duration
        IN  \A room_name \in DOMAIN ROOM_PRICING :
              LET pricing   == ROOM_PRICING[room_name]
                  surcharge == IF pricing.max_guests = 1 THEN 0
                               ELSE Max(0, guests - 1) * pricing.price_per_extra_guest
                  found     == {k \in DOMAIN Options : Options[k].room_name = room_name}
              IN  IF guests <= pricing.max_guests
                  THEN /\ Cardinality(found) = 1
                       /\ \A k \in found :
                            /\ Options[k].price_per_night = Some(pricing.base_price + surcharge)
                            /\ Options[k].total_price =
                                  (pricing.base_price + surcharge) * nights
                            /\ Options[k].nights = Some(nights)
                  ELSE found = {}

C23_Witness ==
    /\ HotelResolved
    /\ req["p1"].guests = 2
    /\ req["p1"].duration = 2
    /\ \E k \in DOMAIN Options :
          /\ Options[k].room_name = "DORMERO Zimmer"
          /\ Options[k].price_per_night = <<144>>
          /\ Options[k].total_price = 288

\* C24: for every meeting room of the catalog that can hold the guests, the
\* resolved option has price_per_day equal to the full-day rate and total_price
\* = full_day * days, plus price_per_person_catering * guests * days when
\* catering is requested; the half-day rate is never used.
C24_MeetingPrice ==
    MeetingResolved =>
        LET guests   == req["p1"].guests
            days     == req["p1"].duration
            catering == req["p1"].include_catering
        IN  \A room_name \in DOMAIN MEETING_ROOM_PRICING :
              LET pricing == MEETING_ROOM_PRICING[room_name]
                  found   == {k \in DOMAIN Options : Options[k].room_name = room_name}
              IN  IF guests <= hotel_data.max_capacity[room_name]
                  THEN /\ Cardinality(found) = 1
                       /\ \A k \in found :
                            /\ Options[k].price_per_day = Some(pricing.full_day)
                            /\ Options[k].price_per_day # Some(pricing.half_day)
                            /\ Options[k].days = Some(days)
                            /\ Options[k].total_price =
                                  IF catering
                                  THEN pricing.full_day * days
                                       + pricing.price_per_person_catering * guests * days
                                  ELSE pricing.full_day * days
                            /\ (Options[k].catering_note # None) = catering
                  ELSE found = {}

C24_Witness ==
    /\ MeetingResolved
    /\ req["p1"].guests = 30
    /\ req["p1"].duration = 1
    /\ req["p1"].include_catering
    /\ \E k \in DOMAIN Options :
          /\ Options[k].room_name = "Carolina Cik"
          /\ Options[k].price_per_day = <<750>>
          /\ Options[k].total_price = 1800

\* the capacity of a room of the catalog
CapacityOf(room_type, room_name) ==
    IF room_type = "hotel" THEN ROOM_PRICING[room_name].max_guests
    ELSE hotel_data.max_capacity[room_name]

\* C25: a room whose capacity is below the requested guest count never appears
\* in the resolved option list, hotel or meeting, and every option in the list,
\* and so in every pending record, has max_capacity >= the inquiry's guests.
C25_CapacityFilter ==
    /\ (pc["p1"] = "resolved" /\ req["p1"].op = "resolve-options") =>
          /\ \A k \in DOMAIN Options :
                /\ Options[k].max_capacity >= req["p1"].guests
                /\ CapacityOf(req["p1"].room_type, Options[k].room_name)
                      >= req["p1"].guests
          /\ \A room_name \in DOMAIN ROOM_PRICING \cup DOMAIN MEETING_ROOM_PRICING :
                (/\ room_name \in DOMAIN (IF req["p1"].room_type = "hotel"
                                         THEN ROOM_PRICING ELSE MEETING_ROOM_PRICING)
                 /\ CapacityOf(req["p1"].room_type, room_name) < req["p1"].guests)
                    => room_name \notin RoomNamesOf(Options)
    /\ \A k \in DOMAIN pendingFile.data :
          \A j \in DOMAIN pendingFile.data[k].available_options :
              pendingFile.data[k].available_options[j].max_capacity
                  >= pendingFile.data[k].guests

C25_Witness ==
    /\ MeetingResolved
    /\ req["p1"].guests = 21
    /\ RoomNamesOf(Options) = {"Carolina Cik"}

\* sorted lists the elements of unsorted by ascending total_price, elements of
\* equal total_price in the order they have in unsorted
StablySorted(unsorted, sorted) ==
    /\ Len(sorted) = Len(unsorted)
    /\ \A k \in 1..(Len(sorted) - 1) :
          sorted[k].total_price <= sorted[k + 1].total_price
    /\ \E from \in [DOMAIN sorted -> DOMAIN unsorted] :
          /\ \A a, b \in DOMAIN sorted : a # b => from[a] # from[b]
          /\ \A a \in DOMAIN sorted : sorted[a] = unsorted[from[a]]
          /\ \A a, b \in DOMAIN sorted :
                (a < b /\ sorted[a].total_price = sorted[b].total_price)
                    => from[a] < from[b]

\* C26: the resolved option list is sorted ascending by total_price, and
\* options with equal total_price keep the order in which their rooms are
\* iterated in the catalog.
C26_SortedStable ==
    pc["p1"] = "resolved" => StablySorted(booking["p1"][1].unsorted, Options)

C26_Witness ==
    /\ pc["p1"] = "resolved"
    /\ req["p1"].op = "sort-options"
    /\ Options # booking["p1"][1].unsorted
    /\ \E a, b \in DOMAIN Options :
          /\ a < b
          /\ Options[a].total_price = Options[b].total_price
          /\ Options[a].room_name # Options[b].room_name

\* the option the resolver computes for one room
OptionFor(room_type, room_name, guests, duration, include_catering) ==
    IF room_type = "hotel"
    THEN HotelRoomOption(room_name, guests, duration)
    ELSE MeetingRoomOption(room_name, guests, duration, include_catering)

\* C27: for a fixed room, total_price is never negative and does not decrease
\* when the guest count grows within the room's capacity or when the duration
\* grows, for hotel rooms and for meeting rooms with and without catering.
C27_PriceMonotone ==
    (pc["p1"] = "resolved" /\ req["p1"].op = "resolve-options") =>
        LET room_type == req["p1"].room_type
            guests    == req["p1"].guests
            duration  == req["p1"].duration
            catering  == req["p1"].include_catering
        IN  \A k \in DOMAIN Options :
              LET room_name == Options[k].room_name
              IN  /\ Options[k].total_price >= 0
                  /\ OptionFor(room_type, room_name, guests, duration + 1,
                               catering).total_price >= Options[k].total_price
                  /\ guests < CapacityOf(room_type, room_name) =>
                        OptionFor(room_type, room_name, guests + 1, duration,
                                  catering).total_price >= Options[k].total_price

C27_Witness ==
    /\ HotelResolved
    /\ req["p1"].guests = 3
    /\ req["p1"].duration = 2
    /\ \E k \in DOMAIN Options :
          /\ Options[k].room_name = "Junior Suite"
          /\ HotelRoomOption("Junior Suite", 4, 2).total_price > Options[k].total_price
          /\ HotelRoomOption("Junior Suite", 3, 3).total_price > Options[k].total_price

\* no room of the inquiry's type holds its guests
NoRoomFits(inq) ==
    IF Lower(inq.room_type) = "hotel"
    THEN \A room_name \in DOMAIN ROOM_PRICING :
            ROOM_PRICING[room_name].max_guests < inq.guests
    ELSE \A room_name \in DOMAIN MEETING_ROOM_PRICING :
            hotel_data.max_capacity[room_name] < inq.guests

\* C28: when no room satisfies the capacity constraint the resolver returns an
\* empty list, not an error: the valid inquiry is answered 200 with an
\* identifier and is stored as a pending record whose option list is empty.
C28_NoAvailabilityPending ==
    (/\ pc["p1"] = "done"
     /\ req["p1"].op = "booking-request"
     /\ ~FailsValidation(req["p1"].inquiry)
     /\ NoRoomFits(req["p1"].inquiry))
        => /\ resp["p1"].code = 200
           /\ resp["p1"].booking_id # None
           /\ \E k \in DOMAIN pendingFile.data :
                 /\ pendingFile.data[k].booking_id = resp["p1"].booking_id
                 /\ pendingFile.data[k].original_request
                       = req["p1"].inquiry.original_request
                 /\ pendingFile.data[k].available_options = <<>>

C28_Witness ==
    /\ pc["p1"] = "done"
    /\ req["p1"].op = "booking-request"
    /\ req["p1"].inquiry.guests = 150
    /\ resp["p1"].code = 200
    /\ Len(pendingFile.data) >= 2
    /\ pendingFile.data[Len(pendingFile.data)].available_options = <<>>
    /\ pendingFile.data[1].available_options # <<>>

\* C29: a partition whose storage is missing, corrupt or unreadable at load
\* time is read as empty and never makes an operation fail: no call is
\* answered 500, and a valid booking request is answered 200 and its record is
\* stored, whatever the state of the two files when it was issued.
C29_DamagedStorageReadAsEmpty ==
    pc["p1"] = "done" =>
        /\ resp["p1"].code # 500
        /\ (req["p1"].op = "booking-request"
              /\ InquiryError(req["p1"].inquiry) = NoResponse)
             => /\ resp["p1"].code = 200
                /\ pendingFile.state = "valid"
                /\ resp["p1"].booking_id \in PendingIds

\* the options stored under identifier id by the booking request that issued it
OfferedUnder(id) ==
    UNION {Range(log[i].booking[1].available_options) :
              i \in {j \in DOMAIN log : Booked(j) /\ log[j].booking_id = id}}

\* C30: confirming an offered option is price-stable: the selected_room of a
\* confirmed record equals, field for field and so in total_price, the option
\* of that room name stored in the pending record; nothing is priced again.
C30_PriceStable ==
    \A k \in DOMAIN confirmedFile.data :
        LET confirmed_booking == confirmedFile.data[k]
        IN  \E option \in OfferedUnder(confirmed_booking.booking_id) :
              /\ option.room_name = confirmed_booking.selected_room.room_name
              /\ option = confirmed_booking.selected_room

C30_Witness ==
    /\ pc["p1"] = "done"
    /\ req["p1"].op = "confirm-booking"
    /\ resp["p1"].code = 200
    /\ \E k \in DOMAIN confirmedFile.data :
          /\ confirmedFile.data[k].booking_id = req["p1"].booking_id
          /\ confirmedFile.data[k].selected_room.room_name = "DORMERO Zimmer"
          /\ confirmedFile.data[k].selected_room.total_price = 288
          /\ confirmedFile.data[k].guests = 2


\* C31: no ledger operation blocks: whatever the two partitions hold, the
\* probe loop of the identifier allocator returns an identifier that is in
\* neither partition, and every booking-request and confirm-booking call that
\* has started ends with a response or a reported error.
C31_NoCallBlocks ==
    /\ [](pc["p1"] = "load_pending"
            => /\ booking_id["p1"] \notin all_ids["p1"]
               /\ \E n \in 1..(Cardinality(all_ids["p1"]) + 1) :
                     booking_id["p1"] = FormatBookingId(n))
    /\ (pc["p1"] # "idle") ~> (pc["p1"] = "done" /\ resp["p1"] # NoResponse)

\* the probe has stepped over two taken identifiers and the call has ended
C31_Witness ==
    /\ pc["p1"] = "done"
    /\ req["p1"].op = "booking-request"
    /\ resp["p1"].code = 200
    /\ resp["p1"].booking_id = FormatBookingId(3)
    /\ Cardinality(all_ids["p1"]) = 2
    /\ Len(confirmedFile.data) >= 1


----------------------------------------------------------------------------
(***************************************************************************)
(* The semantic search.  A retrieved node is a record of its text, the     *)
(* category of its metadata and its score; a score is None or Some(v) with *)
(* v in hundredths, so the threshold 0.3 is 30.                            *)
(***************************************************************************)
TOP_K_RESULTS == 3
SIMILARITY_THRESHOLD == 30

\* the keys of category_mappings in _get_category_data
CategoryMappings ==
    {"basic_info", "contact", "parking", "transportation", "rooms", "bar",
     "fitness_wellness", "free_amenities", "meeting_rooms"}

\* _get_category_data: None for a category without mapping, else the hotel
\* data under the keys of the category, named here by the category
_get_category_data(category) ==
    IF category \notin CategoryMappings THEN None ELSE Some(category)

\* seeded fault: the threshold itself does not qualify
RelevantNodesAboveThreshold(nodes) ==
    SelectSeq(nodes, LAMBDA node :
        node.score # None /\ node.score[1] > SIMILARITY_THRESHOLD)

\* [node for node in nodes if node.score is not None and node.score >= ...]
RelevantNodes(nodes) ==
    SelectSeq(nodes, LAMBDA node :
        node.score # None /\ node.score[1] >= SIMILARITY_THRESHOLD)

RECURSIVE CategoriesOf(_, _)
CategoriesOf(relevant_nodes, categories) ==
    IF relevant_nodes = <<>> THEN categories
    ELSE LET category == Head(relevant_nodes).category
         IN  CategoriesOf(Tail(relevant_nodes),
                          IF category \notin Range(categories)
                          THEN Append(categories, category)
                          ELSE categories)

RECURSIVE RelevantDataOf(_)
RelevantDataOf(relevant_nodes) ==
    IF relevant_nodes = <<>> THEN <<>>
    ELSE LET node          == Head(relevant_nodes)
             category_data == _get_category_data(node.category)
         IN  IF category_data # None
             THEN <<[category         |-> node.category,
                     data             |-> category_data[1],
                     similarity_score |-> node.score[1]]>>
                  \o RelevantDataOf(Tail(relevant_nodes))
             ELSE RelevantDataOf(Tail(relevant_nodes))

\* HotelQueryEngine.query, from the nodes the retriever returned
QueryResult(question, nodes) ==
    LET relevant_nodes == RelevantNodes(nodes)
    IN  IF relevant_nodes = <<>>
        THEN [question          |-> question,
              relevant_data     |-> <<>>,
              source_texts      |-> <<>>,
              categories        |-> <<>>,
              has_relevant_data |-> FALSE]
        ELSE [question          |-> question,
              relevant_data     |-> RelevantDataOf(relevant_nodes),
              source_texts      |-> [i \in DOMAIN relevant_nodes |->
                                        relevant_nodes[i].text],
              categories        |-> CategoriesOf(relevant_nodes, <<>>),
              has_relevant_data |-> TRUE]

\* nodes of the index: scores at, just under and over the threshold, without
\* a score, two nodes of one category and one of a category without mapping
SampleNodes ==
    { [text |-> "rooms",     category |-> "rooms",   score |-> Some(85)],
      [text |-> "room list", category |-> "rooms",   score |-> Some(31)],
      [text |-> "parking",   category |-> "parking", score |-> Some(30)],
      [text |-> "bar",       category |-> "bar",     score |-> Some(29)],
      [text |-> "sauna",     category |-> "fitness_wellness", score |-> None],
      [text |-> "notes",     category |-> "unknown", score |-> Some(45)] }

\* what retriever.retrieve can return: up to TOP_K_RESULTS different nodes
Retrievals ==
    {nodes \in UNION {[1..n -> SampleNodes] : n \in 0..TOP_K_RESULTS} :
        \A i, j \in DOMAIN nodes : i # j => nodes[i] # nodes[j]}

\* engine.query(question) on every retrieval
EngineQuery(p) ==
    /\ pc[p] = "idle"
    /\ \E nodes \in Retrievals :
        /\ req' = [req EXCEPT ![p] = [op       |-> "engine-query",
                                      question |-> "question",
                                      nodes    |-> nodes]]
        /\ booking' = [booking EXCEPT ![p] = Some(QueryResult("question", nodes))]
    /\ pc' = [pc EXCEPT ![p] = "resolved"]
    /\ UNCHANGED <<Files, all_ids, booking_id, pending_bookings, confirmed_bookings,
                   resp, log, calls>>
    /\ UNCHANGED Rag

QueryNext ==
    \/ EngineQuery("p1")
    \/ Resolved("p1")

QuerySpec == Init /\ [][QueryNext]_vars

\* the positions of the retrieved nodes that pass the threshold
Qualifying(nodes) ==
    {i \in DOMAIN nodes :
        nodes[i].score # None /\ nodes[i].score[1] >= SIMILARITY_THRESHOLD}

\* the texts of the qualifying nodes, in retrieval order
RECURSIVE QualifyingTexts(_, _)
QualifyingTexts(nodes, i) ==
    IF i > Len(nodes) THEN <<>>
    ELSE IF i \in Qualifying(nodes)
         THEN <<nodes[i].text>> \o QualifyingTexts(nodes, i + 1)
         ELSE QualifyingTexts(nodes, i + 1)

\* C32: a query discards every retrieved node whose score is missing or
\* below the threshold: has_relevant_data is true exactly when some node has
\* a score of at least the threshold, source_texts is then the texts of those
\* nodes in retrieval order, and with no such node relevant_data,
\* source_texts and categories are empty.
C32_ThresholdFilter ==
    (pc["p1"] = "resolved" /\ req["p1"].op = "engine-query")
        => LET nodes  == req["p1"].nodes
               result == booking["p1"][1]
           IN  /\ result.has_relevant_data <=> (Qualifying(nodes) # {})
               /\ result.source_texts = QualifyingTexts(nodes, 1)
               /\ Qualifying(nodes) = {}
                     => /\ result.relevant_data = <<>>
                        /\ result.source_texts = <<>>
                        /\ result.categories = <<>>

\* three nodes retrieved, the one without score first, then one exactly at
\* the threshold and one under it: only the second is kept
C32_Witness ==
    /\ pc["p1"] = "resolved"
    /\ req["p1"].op = "engine-query"
    /\ Len(req["p1"].nodes) = 3
    /\ req["p1"].nodes[1].score = None
    /\ req["p1"].nodes[2].score = Some(SIMILARITY_THRESHOLD)
    /\ req["p1"].nodes[3].score = Some(29)
    /\ booking["p1"][1].has_relevant_data
    /\ booking["p1"][1].source_texts = <<"parking">>


----------------------------------------------------------------------------
(***************************************************************************)
(* The handlers of the semantic search.  storage/ holds the index files    *)
(* next to the two booking files.                                          *)
(***************************************************************************)
\* INDEX_STORAGE_PATH.exists(): a saver or a persist has made the directory
StorageExists ==
    \/ index_storage # "absent"
    \/ pendingFile.state # "missing"
    \/ confirmedFile.state # "missing"

QueryResponse(code, detail, engine, result) ==
    [code |-> code, detail |-> detail, booking_id |-> None,
     engine |-> engine, result |-> result]

\* the retrievals the handler is called with: nothing found, one node kept
RagRetrievals ==
    {nodes \in Retrievals :
        nodes = <<>> \/ (Len(nodes) = 1 /\ nodes[1].score = Some(85))}

\* POST /query: get_query_engine(), HotelQueryEngine() with
\* load_or_create_index() when there is no engine yet, engine.query().
\* created: whether create_index, which calls the embedding service, returns
QueryHotel(p) ==
    /\ pc[p] = "idle"
    /\ calls < MaxCalls
    /\ \E nodes \in RagRetrievals, created \in BOOLEAN :
        /\ req' = [req EXCEPT ![p] = [op |-> "query", question |-> "question",
                                      nodes |-> nodes]]
        /\ IF _query_engine # None
           THEN \* the singleton is reused
                /\ created
                /\ UNCHANGED <<Files, Rag>>
                /\ Respond(p, QueryResponse(200, "", _query_engine,
                                            Some(QueryResult("question", nodes))))
           ELSE IF index_storage = "valid"
           THEN \* load_index_from_storage returns the stored index
                /\ created
                /\ _query_engine' = Some(calls + 1)
                /\ UNCHANGED <<Files, index_storage>>
                /\ Respond(p, QueryResponse(200, "", _query_engine',
                                            Some(QueryResult("question", nodes))))
           ELSE \* no index to load: shutil.rmtree(INDEX_STORAGE_PATH) when the
                \* directory exists, then create_index
                /\ IF StorageExists
                   THEN /\ pendingFile' = MissingFile
                        /\ confirmedFile' = MissingFile
                   ELSE UNCHANGED Files
                /\ IF created
                   THEN /\ index_storage' = "valid"
                        /\ _query_engine' = Some(calls + 1)
                        /\ Respond(p, QueryResponse(200, "", _query_engine',
                                                    Some(QueryResult("question", nodes))))
                   ELSE /\ index_storage' = "absent"
                        /\ _query_engine' = None
                        /\ Respond(p, QueryResponse(500, "Query failed", None, None))
    /\ calls' = calls + 1
    /\ UNCHANGED <<Locals, log>>

\* seeded fault: a rebuild that does not reset the singleton
RebuildIndexKeepsEngine(p) ==
    /\ pc[p] = "idle"
    /\ calls < MaxCalls
    /\ req' = [req EXCEPT ![p] = [op |-> "rebuild-index"]]
    /\ \E rebuilt \in BOOLEAN :
        IF rebuilt
        THEN /\ index_storage' = "valid"
             /\ UNCHANGED _query_engine
             /\ Respond(p, Response(200, "Index rebuilt successfully", None))
        ELSE /\ UNCHANGED Rag
             /\ Respond(p, Response(500, "Rebuild failed", None))
    /\ calls' = calls + 1
    /\ UNCHANGED <<Files, Locals, log>>

\* POST /rebuild-index: rebuild_index() creates and persists the index, then
\* the singleton is reset; an exception of rebuild_index() skips the reset.
\* rebuilt: whether rebuild_index returns
RebuildIndex(p) ==
    /\ pc[p] = "idle"
    /\ calls < MaxCalls
    /\ req' = [req EXCEPT ![p] = [op |-> "rebuild-index"]]
    /\ \E rebuilt \in BOOLEAN :
        IF rebuilt
        THEN /\ index_storage' = "valid"
             /\ _query_engine' = None
             /\ Respond(p, Response(200, "Index rebuilt successfully", None))
        ELSE /\ UNCHANGED Rag
             /\ Respond(p, Response(500, "Rebuild failed", None))
    /\ calls' = calls + 1
    /\ UNCHANGED <<Files, Locals, log>>

\* queries and rebuilds between booking requests and confirmations
RagNext ==
    \/ QueryHotel("p1")
    \/ RebuildIndex("p1")
    \/ RequestBookingWith("p1", LiveInquiries)
    \/ ConfirmBookingWith("p1", LiveConfirmRequests)
    \/ ContinueCall("p1")

RagSpec == Init /\ [][RagNext]_vars

\* C33: the operations of the semantic-search index (loading it, rebuilding
\* it when loading fails, rebuild_index) leave the pending and the confirmed
\* partition unchanged: no query or rebuild-index call, between booking
\* requests and confirmations, removes or alters a ledger record.
C33_IndexKeepsLedger ==
    [][(pc["p1"] = "idle" /\ req'["p1"].op \in {"query", "rebuild-index"})
          => UNCHANGED Files]_vars

QueryCall(i) == log[i].op = "query"
Rebuilt(i) == log[i].op = "rebuild-index" /\ log[i].code = 200

\* calls return in the order they start, so the i-th entry of the log is the
\* i-th call, and an engine constructed by the i-th call is Some(i)
SameEngineBetweenRebuilds ==
    \A i, j \in DOMAIN log :
        (/\ i < j
         /\ QueryCall(i) /\ log[i].engine # None
         /\ QueryCall(j) /\ log[j].engine # None
         /\ \A k \in (i + 1)..(j - 1) : ~Rebuilt(k))
            => log[i].engine = log[j].engine

NewEngineAfterRebuild ==
    \A i, j \in DOMAIN log :
        (/\ i < j
         /\ Rebuilt(i)
         /\ QueryCall(j) /\ log[j].code = 200
         /\ \A k \in (i + 1)..(j - 1) : ~QueryCall(k))
            => log[j].engine = Some(j)

\* C38: the query engine is a singleton that only a rebuild replaces: between
\* two successful rebuild-index calls every query uses the same engine, after
\* a successful rebuild-index the next query constructs a new engine, and a
\* rebuild-index that fails leaves the current engine in place.
C38_EngineSingleton ==
    /\ [](SameEngineBetweenRebuilds /\ NewEngineAfterRebuild)
    /\ [][/\ (pc["p1"] = "idle" /\ req'["p1"].op = "rebuild-index"
                 /\ resp'["p1"].code # 200)
             => UNCHANGED _query_engine
          /\ (_query_engine # None /\ _query_engine' # _query_engine)
             => (req'["p1"].op = "rebuild-index" /\ resp'["p1"].code = 200)]_vars

\* a query constructs the engine, a second one reuses it, a rebuild succeeds
\* and the query after it constructs the next engine
C38_Witness ==
    /\ Len(log) = 3
    /\ QueryCall(1) /\ log[1].engine = Some(1)
    /\ QueryCall(2) /\ log[2].engine = Some(1)
    /\ Rebuilt(3)
    /\ pc["p1"] = "done"
    /\ req["p1"].op = "query"
    /\ resp["p1"].engine = Some(4)
    /\ _query_engine = Some(4)

\* the number of booking requests answered 200 among the first i calls
BookedUpTo(i) == Cardinality({j \in 1..i : Booked(j)})

\* C34: from an empty ledger and with calls one at a time, the k-th
\* successful booking request receives BK-<k> with three digits, whatever
\* confirmations and failed requests lie between, so the identifiers are
\* issued in strictly increasing order.
C34_KthRequestGetsKthId ==
    /\ \A i \in DOMAIN log :
          Booked(i) => /\ IsBookingIdOf(log[i].booking_id, BookedUpTo(i))
                       /\ Len(log[i].booking_id) = 6
    /\ \A i, j \in DOMAIN log :
          (i < j /\ Booked(i) /\ Booked(j))
             => NumberOf(SubSeq(log[i].booking_id, 4, 6))
                   < NumberOf(SubSeq(log[j].booking_id, 4, 6))

\* BK-001 issued and confirmed, a request rejected, then the second
\* successful request: it is the fourth call and receives BK-002
C34_Witness ==
    /\ Len(log) = 4
    /\ Booked(1) /\ log[1].booking_id = <<"B", "K", "-", "0", "0", "1">>
    /\ Confirmed(2) /\ log[2].booking_id = log[1].booking_id
    /\ log[3].op = "booking-request" /\ log[3].code = 400
    /\ Booked(4) /\ log[4].booking_id = <<"B", "K", "-", "0", "0", "2">>
    /\ pendingFile.state = "valid" /\ Len(pendingFile.data) = 1
    /\ Len(confirmedFile.data) = 1

\* the records of both partitions together
LedgerSize == Len(pendingFile.data) + Len(confirmedFile.data)

\* C35: a successful confirmation changes the ledger only by moving its own
\* record: the pending partition loses exactly the record with that
\* identifier, the confirmed partition gains exactly one record at its end,
\* every other record of either partition stays as it is and where it is, and
\* the two partitions hold as many records after the call as before it.
C35_ConfirmMovesOneRecord ==
    /\ [][/\ (pc["p1"] = "confirm_save_pending" /\ pc'["p1"] = "confirm_save_confirmed")
             => /\ \E k \in DOMAIN pendingFile.data :
                      /\ pendingFile.data[k].booking_id = req["p1"].booking_id
                      /\ pendingFile'.data =
                            SubSeq(pendingFile.data, 1, k - 1)
                               \o SubSeq(pendingFile.data, k + 1, Len(pendingFile.data))
                /\ \A k \in DOMAIN pendingFile'.data :
                      pendingFile'.data[k].booking_id # req["p1"].booking_id
                /\ confirmedFile' = confirmedFile
          /\ (pc["p1"] = "confirm_save_confirmed" /\ pc'["p1"] = "done")
             => /\ Len(confirmedFile'.data) = Len(confirmedFile.data) + 1
                /\ SubSeq(confirmedFile'.data, 1, Len(confirmedFile.data))
                      = confirmedFile.data
                /\ confirmedFile'.data[Len(confirmedFile'.data)].booking_id
                      = req["p1"].booking_id
                /\ pendingFile' = pendingFile
                /\ resp'["p1"].code = 200
          /\ (pc["p1"] = "idle" /\ req'["p1"].op = "confirm-booking")
             => UNCHANGED Files
          /\ (pc["p1"] = "confirm_load_pending") => UNCHANGED Files]_vars
    /\ [](pc["p1"] = "idle" \/ (pc["p1"] = "done" /\ req["p1"].op = "confirm-booking")
             => LedgerSize = BookedUpTo(Len(log)))

\* the second of two bookings is confirmed after the first: its record goes
\* behind the one the confirmed partition already holds
C35_Witness ==
    /\ pc["p1"] = "done"
    /\ req["p1"].op = "confirm-booking"
    /\ resp["p1"].code = 200
    /\ Len(confirmedFile.data) = 2
    /\ confirmedFile.data[2].booking_id = req["p1"].booking_id
    /\ confirmedFile.data[1].booking_id # req["p1"].booking_id
    /\ Len(pendingFile.data) = 0
    /\ BookedUpTo(Len(log)) = 2

\* the i-th call stored a pending record without any option
EmptyOffer(i) == Booked(i) /\ log[i].booking[1].available_options = <<>>

DaysBetween(b) == Ordinal(b.check_out) - Ordinal(b.check_in)

\* the record keeps its duration in exactly one field, the one of its pricing
OneDurationField(b) ==
    /\ DaysBetween(b) >= 1
    /\ (b.duration_nights # None) # (b.duration_days # None)
    /\ b.room_type = "hotel"
          => b.duration_nights = Some(DaysBetween(b)) /\ b.duration_days = None
    /\ b.room_type # "hotel"
          => b.duration_days = Some(DaysBetween(b)) /\ b.duration_nights = None

\* C37: every pending record has a duration of at least 1, the number of
\* calendar days from check-in to check-out, in exactly one duration field:
\* duration_nights (and duration_days null) when the options were priced as
\* hotel rooms, duration_days (and duration_nights null) when they were priced
\* as meeting rooms, which is whenever the room type is not "hotel".
C37_OneDurationField ==
    \A k \in DOMAIN pendingFile.data : OneDurationField(pendingFile.data[k])

\* the same for the records of the two room types the pricing knows
KnownTypesOneDurationField ==
    \A k \in DOMAIN pendingFile.data :
        pendingFile.data[k].room_type \in KnownRoomTypes
           => OneDurationField(pendingFile.data[k])

====
